---- MODULE Spec2Model ----
(***************************************************************************)
(* Model of the multi-protocol swap bot.                                   *)
(*                                                                         *)
(*   src/multi_protocol_bot.ts  the provider chain (DFlow, Raydium,        *)
(*                              Jupiter, OKX DEX), the daily counter and   *)
(*                              the schedule loop                          *)
(*   src/unnamed/part_000       the earlier single-provider bot, whose     *)
(*                              executeSwap goes through fetchWithRetry    *)
(*                                                                         *)
(* Spec       the schedule loop of multi_protocol_bot.ts; one executeSwap  *)
(*            call is one step of it.                                      *)
(* SpecChain  executeSwap of multi_protocol_bot.ts alone, one provider     *)
(*            pass per step.                                               *)
(* SpecFair   Spec with every await of the loop settling.                  *)
(* SpecStart  the process from its start: the environment is read, the     *)
(*            wallets are built, the loop makes its first swaps.           *)
(* SpecRetry  fetchWithRetry of part_000 alone, one attempt per step.      *)
(***************************************************************************)
EXTENDS Integers, Sequences, FiniteSets, TLC

\* ------------------------------------------------------------------ bounds
\* Number of WALLET_* entries of the environment.
NumWallets == 2
\* Hours the clock of the model runs on after the bot is started.
MaxTicks == 11
\* executeSwap calls followed one provider pass at a time (SpecChain), and
\* fetchWithRetry calls followed one attempt at a time (SpecRetry).
MaxRequests == 2
\* Broadcasts accepted after which SpecStart stops following the loop.
MaxStartTx == 2
\* Hours the clock runs on under SpecFair.
MaxFairTicks == 3

\* ------------------------------------------------------- program constants
WindowOpenHour == 8
WindowCloseHour == 24
DailyCap == 120
PollIntervalMs == 600000
\* fetchWithRetry's maxRetries of part_000, and the unit of its backoff.
maxRetries == 3
BackoffBaseMs == 2000

SOL == "SOL"
PROTOCOL_MINTS == <<"JitoSOL", "mSOL", "bSOL">>

\* Amounts are held in micro-SOL: Number(x.toFixed(6)) is a multiple of 1e-6.
AmountMin == 100
AmountMax == 1000
Amounts == {AmountMin, AmountMin + 2, AmountMax}

\* The provider chain, in the order the constructor builds it.
ProviderNames == <<"DFlow", "Raydium", "Jupiter", "OKX DEX">>
NumProviders == Len(ProviderNames)

\* What one pass of the loop body over a provider can end in:
\*   "transient"   getSwap throws a timeout, reset, socket or proxy error
\*   "terminal"    getSwap throws on a rejected quote, a missing field or a
\*                 payload that does not deserialize
\*   "signThrows"  transaction.sign throws
\*   "sendThrows"  sendRawTransaction throws
\*   "accepted"    sendRawTransaction returns a transaction id
Outcomes == {"transient", "terminal", "signThrows", "sendThrows", "accepted"}

Wallets == 1..NumWallets
NoDate == -1
NoEvt == [leg |-> "none"]
\* No reset was logged by the last step.
NoLog == [date |-> NoDate, yesterday |-> 0]

VARIABLES
    day,            \* calendar date, Asia/Shanghai
    hour,           \* hour of day, Asia/Shanghai
    crossed,        \* the hour changed during the suspension in progress
    okxAvailable,   \* OKXDexProvider.available
    dailyTxCount,
    lastResetDate,
    pc,             \* where start() is suspended
    sleepMs,        \* duration of the pending setTimeout, 0 when none
    shuffled,       \* the round's wallet order
    idx,            \* position in shuffled of the wallet being processed
    target,         \* the round's target mint for this wallet
    amount,         \* the forward amount for this wallet, micro-SOL
    evt,            \* the executeSwap call made by the last step, if any
    fwd,            \* the forward call whose hedge is pending or just made
    chain,          \* one executeSwap call followed pass by pass (SpecChain)
    proc,           \* the process: "new", "running" or "crashed" (exit code 1)
    env,            \* process.env: the WALLET_* entries and RPC_URL
    wallets,        \* this.wallets: a WalletContext for each entry read
    done,           \* the wallets whose forward leg this round has run, in order
    resetLog,       \* what resetDailyCounter logged in the last step, if it did
    retry           \* one fetchWithRetry call followed attempt by attempt (SpecRetry)

vars == <<day, hour, crossed, okxAvailable, dailyTxCount, lastResetDate, pc, sleepMs,
          shuffled, idx, target, amount, evt, fwd, chain, proc, env, wallets, done,
          resetLog, retry>>

\* What the constructor leaves for good.
startVars == <<proc, env, wallets>>

loopVars == <<day, hour, crossed, lastResetDate, pc, sleepMs, shuffled, idx, target,
              amount, evt, fwd, startVars, done, resetLog>>

\* ------------------------------------------------------------ pure helpers
RECURSIVE Perms(_)
\* Every order [...wallets].sort(cmp) can return: a permutation of the set.
Perms(S) ==
    IF S = {} THEN {<<>>}
    ELSE UNION {{<<x>> \o p : p \in Perms(S \ {x})} : x \in S}

\* The orders the round's shuffle can produce, for each set of wallets the
\* constructor can have read.
WalletOrders == [S \in SUBSET Wallets |-> Perms(S)]

\* A sort that loses track of its elements under the inconsistent comparator:
\* any sequence of the wallets, of the right length.
ShuffleLossy(ws) == [1..Cardinality(ws) -> ws]

\* [...this.wallets].sort(() => Math.random() - 0.5) over the wallets ws.
Shuffle(ws) == WalletOrders[ws]

\* isWorkTime(): now.hour >= 8 && now.hour < 24.
isWorkTime(h) == h >= WindowOpenHour /\ h < WindowCloseHour

\* provider.available for each place of the chain: the first three classes
\* set it true, OKXDexProvider sets it from its three environment keys.
Available(okx) == [i \in 1..NumProviders |-> IF i = NumProviders THEN okx ELSE TRUE]

\* ProviderPass with the availability test dropped: an unconfigured provider
\* is called like the others.
ProviderPassNoSkip(isAvailable, outcome) ==
    IF outcome = "accepted" THEN "success" ELSE "failure"

\* ProviderPass with the broadcast outside the try block: what
\* sendRawTransaction throws leaves executeSwap.
ProviderPassSendEscapes(isAvailable, outcome) ==
    IF ~isAvailable THEN "skip"
    ELSE IF outcome = "accepted" THEN "success"
    ELSE IF outcome = "sendThrows" THEN "throws"
    ELSE "failure"

\* ProviderPass without the return true: an accepted broadcast is followed by
\* the next provider like a failure.
ProviderPassNoReturn(isAvailable, outcome) ==
    IF ~isAvailable THEN "skip" ELSE "failure"

\* One pass of the for loop of executeSwap over provider i.
\*   "skip"     available is false: continue, nothing is called
\*   "success"  getSwap, sign and sendRawTransaction returned: return true
\*   "failure"  something threw inside the try: logged, next provider
ProviderPass(isAvailable, outcome) ==
    IF ~isAvailable THEN "skip"
    ELSE IF outcome = "accepted" THEN "success"
    ELSE "failure"

RECURSIVE RunChain(_, _, _, _, _)
\* executeSwap from provider i on: the providers invoked and those that
\* failed so far are carried along.
RunChain(i, avail, outs, invoked, failures) ==
    IF i > NumProviders
    THEN [ok |-> FALSE, provider |-> 0, invoked |-> invoked, failures |-> failures]
    ELSE LET r == ProviderPass(avail[i], outs[i]) IN
         IF r = "skip" THEN RunChain(i + 1, avail, outs, invoked, failures)
         ELSE IF r = "success"
         THEN [ok |-> TRUE, provider |-> i, invoked |-> Append(invoked, i),
               failures |-> failures]
         ELSE RunChain(i + 1, avail, outs, Append(invoked, i), Append(failures, i))

\* executeSwap(ctx, from, to, amount) as a whole.
executeSwap(okx, outs) == RunChain(1, Available(okx), outs, <<>>, <<>>)

\* The values executeSwap can return, over everything the providers and the
\* broadcast can do.
SwapReturnsOf ==
    [okx \in BOOLEAN |->
        {executeSwap(okx, outs).ok : outs \in [1..NumProviders -> Outcomes]}]
SwapReturns(okx) == SwapReturnsOf[okx]

\* The bot is started two hours before the window closes.
StartHour == WindowCloseHour - 2

\* ------------------------------------------- JavaScript number arithmetic
\* A number of the program is an IEEE-754 double: [m, e] stands for m * 2^e,
\* m a natural number of at most 53 bits held as a sequence of limbs, lowest
\* first, in base 2^14 (TLC's integers have 32 bits).
LimbBase == 2^14
\* A double's significand: 52 stored bits and the leading one.
MantissaBits == 52 + 1

Limb(a, j) == IF j \in 1..Len(a) THEN a[j] ELSE 0

RECURSIVE ColSum(_, _, _, _)
\* The sum of a[i'] * b[j] over i' >= i, i' + j = k + 1.
ColSum(a, b, k, i) ==
    IF i > Len(a) THEN 0
    ELSE a[i] * Limb(b, k + 1 - i) + ColSum(a, b, k, i + 1)

RECURSIVE MulCols(_, _, _, _)
MulCols(a, b, k, carry) ==
    IF k > Len(a) + Len(b) THEN <<>>
    ELSE LET t == ColSum(a, b, k, 1) + carry
         IN <<t % LimbBase>> \o MulCols(a, b, k + 1, t \div LimbBase)

\* The exact product of two naturals.
MulBig(a, b) == MulCols(a, b, 1, 0)

RECURSIVE BitLenLimb(_)
BitLenLimb(x) == IF x = 0 THEN 0 ELSE 1 + BitLenLimb(x \div 2)

LimbBits == BitLenLimb(LimbBase) - 1

RECURSIVE TopLimb(_, _)
\* The place of the highest limb of a[1..j] that is not 0; 0 when none is.
TopLimb(a, j) == IF j = 0 THEN 0 ELSE IF a[j] # 0 THEN j ELSE TopLimb(a, j - 1)

Trim(a) == SubSeq(a, 1, TopLimb(a, Len(a)))

BitLen(a) ==
    LET h == TopLimb(a, Len(a))
    IN IF h = 0 THEN 0 ELSE LimbBits * (h - 1) + BitLenLimb(a[h])

\* floor(a / 2^s)
ShiftRight(a, s) ==
    LET q == s \div LimbBits
        r == s % LimbBits
    IN [j \in 1..(Len(a) - q) |->
            (Limb(a, j + q) \div 2^r) + (Limb(a, j + q + 1) % 2^r) * 2^(LimbBits - r)]

\* Bit k of a (bit 0 is the lowest).
Bit(a, k) == (Limb(a, k \div LimbBits + 1) \div 2^(k % LimbBits)) % 2

\* Whether a bit of a below bit k is set.
AnyBelow(a, k) ==
    \/ \E j \in 1..(k \div LimbBits) : Limb(a, j) # 0
    \/ Limb(a, k \div LimbBits + 1) % 2^(k % LimbBits) # 0

RECURSIVE IncBig(_)
IncBig(a) ==
    IF a = <<>> THEN <<1>>
    ELSE IF a[1] + 1 < LimbBase THEN <<a[1] + 1>> \o Tail(a)
    ELSE <<0>> \o IncBig(Tail(a))

RECURSIVE ToInt(_)
ToInt(a) == IF a = <<>> THEN 0 ELSE a[1] + LimbBase * ToInt(Tail(a))

IntLimbs(n) == Trim(<<n % LimbBase, (n \div LimbBase) % LimbBase, n \div (LimbBase * LimbBase)>>)

\* m * 2^e (and, with sticky, a little more) rounded to the nearest double,
\* ties to even.
Round53(m, sticky, e) ==
    LET n == BitLen(m)
    IN IF n <= MantissaBits THEN [m |-> Trim(m), e |-> e]
       ELSE LET s == n - MantissaBits
                q == ShiftRight(m, s)
                up == /\ Bit(m, s - 1) = 1
                      /\ sticky \/ AnyBelow(m, s - 1) \/ q[1] % 2 = 1
            IN [m |-> Trim(IF up THEN IncBig(q) ELSE q), e |-> e + s]

\* x * y of two doubles.
MulD(x, y) == Round53(MulBig(x.m, y.m), FALSE, x.e + y.e)

RECURSIVE DivFrom(_, _, _, _)
\* a[1..j] with rem carried in from above, divided by the small number d.
DivFrom(a, d, j, rem) ==
    IF j = 0 THEN [q |-> <<>>, r |-> rem]
    ELSE LET cur == rem * LimbBase + a[j]
             rest == DivFrom(a, d, j - 1, cur % d)
         IN [q |-> Append(rest.q, cur \div d), r |-> rest.r]

\* The double nearest to num / (odd * 2^p): what Number() and the number
\* literals of the source give for a decimal.
NearestDouble(num, odd, p) ==
    LET a == <<0, 0, 0, 0, 0, num>>
        d == DivFrom(a, odd, Len(a), 0)
    IN Round53(d.q, d.r # 0, 0 - 5 * LimbBits - p)

\* Math.floor of a double below 2^31 with a negative exponent.
FloorD(x) == ToInt(ShiftRight(x.m, 0 - x.e))

\* LAMPORTS_PER_SOL of @solana/web3.js.
LAMPORTS_PER_SOL == [m |-> IntLimbs(10^9), e |-> 0]

\* The literal 0.995 of the hedge call.
HedgeFactor == NearestDouble(995, 5^3, 3)

\* Number(x.toFixed(6)) for the decimal a * 10^-6.
AmountNumber(a) == NearestDouble(a, 5^6, 6)

\* amountLamports of executeSwap(ctx, from, to, amount).
amountLamports(x) == FloorD(MulD(x, LAMPORTS_PER_SOL))

\* amountLamports of the forward and of the hedge call for each amount the
\* loop can draw.
LamportsOf ==
    [a \in Amounts |->
        [forward |-> amountLamports(AmountNumber(a)),
         hedge |-> amountLamports(MulD(AmountNumber(a), HedgeFactor))]]

\* amountLamports of executeSwap(wallet, MINTS.SOL, target.mint, amount).
ForwardLamports(a) == LamportsOf[a].forward

\* The hedge call made with the forward amount itself.
HedgeNoShrink(a) == LamportsOf[a].forward

\* amountLamports of executeSwap(wallet, target.mint, MINTS.SOL, amount * 0.995).
HedgeLamports(a) == LamportsOf[a].hedge

\* The inter-wallet sleep left out.
NoInterWalletDelay == {0}

\* Durations the loop draws for its pacing sleeps, in ms (lowest and highest).
DwellMs == {120000, 359000}
InterWalletMs == {20000, 59999}
LoopWaitMs == {480000, 599000}

\* One executeSwap call not yet made, after n calls.
ChainIdle(n) ==
    [pc |-> "idle", i |-> 0, invoked |-> <<>>, failures |-> <<>>, kinds |-> <<>>,
     last |-> "none", ret |-> "none", via |-> 0, n |-> n]

\* ---------------------------------------------------------------- the start
\* What process.env can hold under WALLET_k: nothing; a value whose key part
\* bs58.decode or Keypair.fromSecretKey rejects; a key alone (proxy 0); a key
\* and, after the '|', one of the proxies.
Entries ==
    {[kind |-> "absent", proxy |-> 0], [kind |-> "malformed", proxy |-> 0]}
        \cup {[kind |-> "wallet", proxy |-> p] : p \in 0..NumWallets}

\* process.env: the WALLET_* entries, and whether RPC_URL is set.
Envs == [keys : [Wallets -> Entries], rpcUrl : BOOLEAN]

\* Every WALLET_k set, each with a proxy of its own, and RPC_URL set.
FullEnv ==
    [keys |-> [k \in Wallets |-> [kind |-> "wallet", proxy |-> k]], rpcUrl |-> TRUE]

\* The keys the forEach of initWallets does not return early on.
WalletKeys(e) == {k \in Wallets : e.keys[k].kind # "absent"}

\* Whether initWallets throws: Keypair.fromSecretKey(bs58.decode(pk)) on a
\* malformed key, new Connection(undefined) (web3.js takes no endpoint that
\* does not start with http) when RPC_URL is not set. Nothing catches it.
initWalletsThrows(e) ==
    \E k \in WalletKeys(e) : e.keys[k].kind = "malformed" \/ ~e.rpcUrl

\* this.wallets as initWallets leaves it. For each entry:
\*   keypair     the entry's own key
\*   agent       a SocksProxyAgent of its own, 0 for undefined (no proxyStr)
\*   connection  a Connection of its own, fetching through createAxiosFetch(agent)
\*   route       what the traffic of agent and connection passes over: the
\*               proxy named in the entry, 0 for the host's own connection
initWallets(e) ==
    [k \in WalletKeys(e) |->
        [keypair |-> k,
         agent |-> IF e.keys[k].proxy # 0 THEN k ELSE 0,
         connection |-> k,
         route |-> e.keys[k].proxy]]

\* No fetchWithRetry call has been made.
RetryIdle(n) ==
    [pc |-> "idle", i |-> 0, calls |-> 0, delays |-> <<>>, errors |-> <<>>,
     result |-> "none", n |-> n]

\* The fields' initialisers, the clock, the ghosts.
InitFields ==
    /\ day = 0
    /\ hour = StartHour
    /\ crossed = FALSE
    /\ okxAvailable \in BOOLEAN
    /\ dailyTxCount = 0
    /\ lastResetDate = NoDate
    /\ pc = "top"
    /\ sleepMs = 0
    /\ shuffled = <<>>
    /\ idx = 0
    /\ target = 0
    /\ amount = 0
    /\ evt = NoEvt
    /\ fwd = NoEvt
    /\ chain = ChainIdle(0)
    /\ done = <<>>
    /\ resetLog = NoLog
    /\ retry = RetryIdle(0)

\* ------------------------------------------------------- the schedule loop
\* After new MultiProtocolBot(): the fields' initialisers, the wallets read
\* from the environment, the providers built; start() is at its while (true).
Init ==
    /\ InitFields
    /\ env = FullEnv
    /\ proc = "running"
    /\ wallets = initWallets(env)

\* The wall clock passes an hour boundary while the loop is suspended in a
\* sleep (the time an executeSwap call takes is told with the sleep that
\* follows it). No sleep is longer than ten minutes: at most one boundary each.
\* The clock is followed for the given number of hours after the start.
TickWithin(ticks) ==
    /\ pc \notin {"top", "forward"}
    /\ ~crossed
    /\ crossed' = TRUE
    /\ day * 24 + hour - StartHour < ticks
    /\ hour' = (hour + 1) % 24
    /\ day' = IF hour = 23 THEN day + 1 ELSE day
    /\ evt' = NoEvt
    /\ fwd' = IF pc = "dwell" THEN fwd ELSE NoEvt
    /\ resetLog' = NoLog
    /\ UNCHANGED <<okxAvailable, dailyTxCount, lastResetDate, pc, sleepMs,
                   shuffled, idx, target, amount, chain, startVars, done, retry>>

\* The clock under Spec.
Tick == TickWithin(MaxTicks)

\* resetDailyCounter without the assignment to lastResetDate.
resetForgetsDate(today, last, count) ==
    IF today # last THEN [count |-> 0, last |-> last]
    ELSE [count |-> count, last |-> last]

\* resetDailyCounter without the assignment to dailyTxCount: the new date is
\* taken down and yesterday's count stays.
resetKeepsCount(today, last, count) ==
    [count |-> count, last |-> today]

\* resetDailyCounter(): the counter as the call leaves it.
resetDailyCounter(today, last, count) ==
    IF today # last THEN [count |-> 0, last |-> today]
    ELSE [count |-> count, last |-> last]

\* Gate with the window test dropped.
GateNoWindow(h, count) ==
    IF count >= DailyCap THEN "capSleep" ELSE "round"

\* Gate with the cap tested by > in place of >=: a round starts at the cap.
GateCapLate(h, count) ==
    IF ~isWorkTime(h) THEN "windowSleep"
    ELSE IF count > DailyCap THEN "capSleep"
    ELSE "round"

\* What the top of the while loop decides once the counter is reset.
Gate(h, count) ==
    IF ~isWorkTime(h) THEN "windowSleep"
    ELSE IF count >= DailyCap THEN "capSleep"
    ELSE "round"

\* Where the for loop over shuffled stands after position i is done.
AfterWallet(i, order) == IF i < Len(order) THEN "forward" ELSE "roundSleep"

\* One iteration of while (true) up to its first await.
LoopTop ==
    /\ proc = "running"
    /\ pc = "top"
    /\ LET r == resetDailyCounter(day, lastResetDate, dailyTxCount)
           g == Gate(hour, r.count)
       IN /\ dailyTxCount' = r.count
          /\ lastResetDate' = r.last
          /\ resetLog' = IF r.last # lastResetDate
                         THEN [date |-> day, yesterday |-> dailyTxCount]
                         ELSE NoLog
          /\ IF g # "round"
             THEN /\ pc' = g
                  /\ sleepMs' = PollIntervalMs
                  /\ UNCHANGED <<shuffled, idx, done>>
             ELSE /\ shuffled' \in Shuffle(DOMAIN wallets)
                  /\ pc' = AfterWallet(0, shuffled')
                  /\ idx' = IF pc' = "forward" THEN 1 ELSE 0
                  /\ sleepMs' \in IF pc' = "forward" THEN {0} ELSE LoopWaitMs
                  /\ done' = <<>>
    /\ evt' = NoEvt
    /\ fwd' = NoEvt
    /\ crossed' = FALSE
    /\ UNCHANGED <<day, hour, okxAvailable, target, amount, chain, startVars, retry>>

\* A poll sleep or the inter-round sleep ends: back to the top of the loop.
Wake ==
    /\ pc \in {"windowSleep", "capSleep", "roundSleep"}
    /\ pc' = "top"
    /\ sleepMs' = 0
    /\ evt' = NoEvt
    /\ fwd' = NoEvt
    /\ crossed' = FALSE
    /\ resetLog' = NoLog
    /\ UNCHANGED <<day, hour, okxAvailable, dailyTxCount, lastResetDate,
                   shuffled, idx, target, amount, chain, startVars, done, retry>>

\* Counted with the increment moved out of the success path.
CountedAlways(count, ok) == count + 1

\* The counter after an executeSwap call that returned ok.
Counted(count, ok) == IF ok THEN count + 1 ELSE count

\* AfterForward with the test of ok dropped: the dwell and the hedge follow a
\* forward leg that failed, too.
AfterForwardAlways(ok) == "dwell"

\* AfterForward with a false result thrown on: start() is rejected and its
\* loop is over.
AfterForwardThrows(ok) == IF ok THEN "dwell" ELSE "rejected"

\* if (ok) { dwell; hedge }: where the forward leg's result sends the loop.
AfterForward(ok) == IF ok THEN "dwell" ELSE "interDelay"

\* The forward leg of shuffled[idx]: target and amount are drawn, executeSwap
\* runs, and the loop is left in the dwell or in the inter-wallet sleep. ctx
\* is the WalletContext whose agent, keypair and connection executeSwap uses.
Forward ==
    /\ pc = "forward"
    /\ \E t \in 1..Len(PROTOCOL_MINTS), a \in Amounts, ok \in SwapReturns(okxAvailable) :
          LET call == [leg |-> "forward", wallet |-> shuffled[idx], from |-> SOL,
                       to |-> PROTOCOL_MINTS[t], lamports |-> ForwardLamports(a),
                       ok |-> ok, ctx |-> wallets[shuffled[idx]]]
          IN /\ evt' = call
             /\ dailyTxCount' = Counted(dailyTxCount, ok)
             /\ IF AfterForward(ok) = "dwell"
                THEN /\ pc' = "dwell"
                     /\ sleepMs' \in DwellMs
                     /\ target' = t
                     /\ amount' = a
                     /\ fwd' = call
                ELSE /\ pc' = AfterForward(ok)
                     /\ sleepMs' \in InterWalletMs
                     /\ target' = 0
                     /\ amount' = 0
                     /\ fwd' = NoEvt
    /\ done' = Append(done, shuffled[idx])
    /\ resetLog' = NoLog
    /\ crossed' = FALSE
    /\ UNCHANGED <<day, hour, okxAvailable, lastResetDate, shuffled, idx, chain,
                   startVars, retry>>

\* The dwell ends and the hedge leg runs; its result is not looked at.
Hedge ==
    /\ pc = "dwell"
    /\ \E ok \in SwapReturns(okxAvailable) :
          /\ evt' = [leg |-> "hedge", wallet |-> shuffled[idx],
                     from |-> PROTOCOL_MINTS[target], to |-> SOL,
                     lamports |-> HedgeLamports(amount), ok |-> ok,
                     ctx |-> wallets[shuffled[idx]]]
          /\ dailyTxCount' = Counted(dailyTxCount, ok)
    /\ pc' = "interDelay"
    /\ sleepMs' \in InterWalletMs
    /\ target' = 0
    /\ amount' = 0
    /\ resetLog' = NoLog
    /\ crossed' = FALSE
    /\ UNCHANGED <<day, hour, okxAvailable, lastResetDate, shuffled, idx, fwd,
                   chain, startVars, done, retry>>

\* The inter-wallet sleep ends: the next wallet, or the inter-round sleep.
NextWallet ==
    /\ pc = "interDelay"
    /\ pc' = AfterWallet(idx, shuffled)
    /\ idx' = IF pc' = "forward" THEN idx + 1 ELSE 0
    /\ sleepMs' \in IF pc' = "forward" THEN {0} ELSE LoopWaitMs
    /\ evt' = NoEvt
    /\ fwd' = NoEvt
    /\ crossed' = FALSE
    /\ resetLog' = NoLog
    /\ UNCHANGED <<day, hour, okxAvailable, dailyTxCount, lastResetDate,
                   shuffled, target, amount, chain, startVars, done, retry>>

Next == Tick \/ LoopTop \/ Wake \/ Forward \/ Hedge \/ NextWallet

Spec == Init /\ [][Next]_vars

\* A step of start() itself: every step but the clock's.
LoopStep == LoopTop \/ Wake \/ Forward \/ Hedge \/ NextWallet

\* The clock, followed past midnight only.
TickFair == TickWithin(MaxFairTicks)

NextFair == TickFair \/ LoopStep

\* The loop with every await of start() settling: each setTimeout fires, and
\* each executeSwap call returns (its requests have a timeout, its exceptions
\* are caught). Nothing is asked of the clock.
SpecFair == Init /\ [][NextFair]_vars /\ WF_vars(LoopStep)

\* ------------------------------------------------- the process, from its start
\* The environment as node finds it; nothing is constructed yet.
InitStart ==
    /\ InitFields
    /\ env \in Envs
    /\ proc = "new"
    /\ wallets = <<>>

\* new MultiProtocolBot().start(): the constructor runs initWallets; what it
\* throws is caught nowhere and ends the process with exit code 1. Otherwise
\* the providers are built and start() runs to its while (true), whatever
\* this.wallets holds. The source has no process.exit.
Launch ==
    /\ proc = "new"
    /\ IF initWalletsThrows(env)
       THEN proc' = "crashed" /\ wallets' = wallets
       ELSE proc' = "running" /\ wallets' = initWallets(env)
    /\ UNCHANGED <<day, hour, crossed, okxAvailable, dailyTxCount, lastResetDate,
                   pc, sleepMs, shuffled, idx, target, amount, evt, fwd, chain,
                   env, done, resetLog, retry>>

\* The loop, followed for its first broadcasts.
StartStep == dailyTxCount < MaxStartTx /\ LoopStep

NextStart == Launch \/ StartStep

SpecStart == InitStart /\ [][NextStart]_vars

\* ------------------------------------------- executeSwap, pass by pass
\* executeSwap is called: amountLamports and signer are computed, the for
\* loop stands before the first provider.
ChainCall ==
    /\ chain.pc = "idle"
    /\ chain.n < MaxRequests
    /\ chain' = [ChainIdle(chain.n + 1) EXCEPT !.pc = "loop", !.i = 1]
    /\ UNCHANGED <<okxAvailable, dailyTxCount, loopVars, retry>>

\* One pass of the for loop over providers[chain.i].
\*   chain.invoked   the providers whose getSwap was called, in call order
\*   chain.failures  the providers the catch block logged, in log order
\*   chain.kinds     what each of them failed with
\*   chain.last      how the last call made ended
ChainPass ==
    /\ chain.pc = "loop"
    /\ chain.i <= NumProviders
    /\ \E outcome \in Outcomes :
          LET r == ProviderPass(Available(okxAvailable)[chain.i], outcome)
              called == [chain EXCEPT !.invoked = Append(@, chain.i),
                                      !.last = outcome]
          IN CASE r = "skip" ->
                    /\ chain' = [chain EXCEPT !.i = @ + 1]
                    /\ UNCHANGED dailyTxCount
               [] r = "success" ->
                    /\ chain' = [called EXCEPT !.pc = "returned", !.ret = "true",
                                               !.via = chain.i]
                    /\ dailyTxCount' = Counted(dailyTxCount, TRUE)
               [] r = "failure" ->
                    /\ chain' = [called EXCEPT !.failures = Append(@, chain.i),
                                               !.kinds = Append(@, outcome),
                                               !.i = @ + 1]
                    /\ UNCHANGED dailyTxCount
               [] OTHER ->
                    \* the exception leaves executeSwap
                    /\ chain' = [called EXCEPT !.pc = "returned", !.ret = "threw"]
                    /\ UNCHANGED dailyTxCount
    /\ UNCHANGED <<okxAvailable, loopVars, retry>>

\* The for loop is over: the failure is logged and false is returned.
ChainExhausted ==
    /\ chain.pc = "loop"
    /\ chain.i > NumProviders
    /\ chain' = [chain EXCEPT !.pc = "returned", !.ret = "false"]
    /\ UNCHANGED <<okxAvailable, dailyTxCount, loopVars, retry>>

\* The caller has the result; the next call can be made.
ChainDone ==
    /\ chain.pc = "returned"
    /\ chain' = ChainIdle(chain.n)
    /\ UNCHANGED <<okxAvailable, dailyTxCount, loopVars, retry>>

NextChain == ChainCall \/ ChainPass \/ ChainExhausted \/ ChainDone

SpecChain == Init /\ [][NextChain]_vars

\* ------------------------------- fetchWithRetry of part_000, attempt by attempt
\* error.message of what operation() can throw, as the words it is made of:
\* axios' timeout and network errors, a reset connection, a refused quote, and
\* an error with no message ('' after error.message || '').
Messages ==
    {<<"timeout", "of", "15000ms", "exceeded">>,
     <<"Network", "Error">>,
     <<"read", "ECONNRESET">>,
     <<"Request", "failed", "with", "status", "code", "400">>,
     <<>>}

\* toLowerCase(), word by word.
toLowerCase(msg) ==
    [k \in DOMAIN msg |->
        CASE msg[k] = "Network" -> "network"
          [] msg[k] = "Error" -> "error"
          [] msg[k] = "ECONNRESET" -> "econnreset"
          [] msg[k] = "Request" -> "request"
          [] OTHER -> msg[k]]

\* The words whose presence makes fetchWithRetry try again.
RetryWords == {"socket", "timeout", "proxy", "network", "econnreset", "econnrefused"}

\* msg.includes('socket') || ... || msg.includes('econnrefused')
IsTransient(message) ==
    LET msg == toLowerCase(message)
    IN \E k \in DOMAIN msg : msg[k] \in RetryWords

\* The backoff with the attempt number left out: the same delay every time.
BackoffFlat(i) == BackoffBaseMs

\* The setTimeout of the catch block at loop index i: 2000 * (i + 1).
Backoff(i) == BackoffBaseMs * (i + 1)

\* fetchWithRetry(ctx, operation) is called: i = 0.
RetryCall ==
    /\ retry.pc = "idle"
    /\ retry.n < MaxRequests
    /\ retry' = [RetryIdle(retry.n + 1) EXCEPT !.pc = "loop"]
    /\ UNCHANGED <<okxAvailable, dailyTxCount, loopVars, chain>>

\* One pass of the for loop with i < maxRetries: operation() is awaited.
\*   retry.calls   how often operation() was called
\*   retry.errors  what it threw, in order; the last one is lastError
\*   retry.delays  the setTimeout durations awaited, in order
RetryAttempt ==
    /\ retry.pc = "loop"
    /\ retry.i < maxRetries
    /\ \/ retry' = [retry EXCEPT !.calls = @ + 1, !.pc = "done", !.result = "returned"]
       \/ \E message \in Messages :
             LET caught == [retry EXCEPT !.calls = @ + 1, !.errors = Append(@, message)]
             IN IF IsTransient(message)
                THEN retry' = [caught EXCEPT !.pc = "sleep",
                                             !.delays = Append(@, Backoff(retry.i))]
                ELSE retry' = [caught EXCEPT !.pc = "done", !.result = "threw"]
    /\ UNCHANGED <<okxAvailable, dailyTxCount, loopVars, chain>>

\* The backoff is over: continue, i++.
RetryWake ==
    /\ retry.pc = "sleep"
    /\ retry' = [retry EXCEPT !.pc = "loop", !.i = @ + 1]
    /\ UNCHANGED <<okxAvailable, dailyTxCount, loopVars, chain>>

\* i = maxRetries: the for loop is over, throw lastError.
RetryExhausted ==
    /\ retry.pc = "loop"
    /\ retry.i >= maxRetries
    /\ retry' = [retry EXCEPT !.pc = "done", !.result = "threw"]
    /\ UNCHANGED <<okxAvailable, dailyTxCount, loopVars, chain>>

\* The caller has the value or the error; the next call can be made.
RetryDone ==
    /\ retry.pc = "done"
    /\ retry' = RetryIdle(retry.n)
    /\ UNCHANGED <<okxAvailable, dailyTxCount, loopVars, chain>>

NextRetry == RetryCall \/ RetryAttempt \/ RetryWake \/ RetryExhausted \/ RetryDone

\* operation() settles (its requests have a timeout of 15 s) and every
\* setTimeout fires.
SpecRetry == Init /\ [][NextRetry]_vars /\ WF_vars(NextRetry)

\* ================================================================ claims

\* The available providers of the chain before place i, in chain order.
AvailBefore(i) ==
    LET Keep(j) == j < i /\ Available(okxAvailable)[j]
    IN SelectSeq([j \in 1..NumProviders |-> j], Keep)

\* How often provider p was called in the request being followed.
CallsTo(p) == Cardinality({k \in DOMAIN chain.invoked : chain.invoked[k] = p})

\* C1: in every executeSwap call the providers are called in the declared
\* order DFlow, Raydium, Jupiter, OKX DEX, every available provider before the
\* current place has been called and no unavailable one ever is; when the call
\* succeeds via provider C, the failures logged are exactly the available
\* providers before C, in chain order.
C1_ChainOrder ==
    /\ ProviderNames = <<"DFlow", "Raydium", "Jupiter", "OKX DEX">>
    /\ \A k \in DOMAIN chain.invoked : Available(okxAvailable)[chain.invoked[k]]
    /\ \A k \in DOMAIN chain.invoked :
          k > 1 => chain.invoked[k - 1] < chain.invoked[k]
    /\ chain.pc = "loop" => chain.invoked = AvailBefore(chain.i)
    /\ chain.ret = "true" =>
          /\ chain.failures = AvailBefore(chain.via)
          /\ chain.invoked = Append(chain.failures, chain.via)

\* C1 witness: DFlow and Raydium failed, Jupiter succeeded.
C1_Witness ==
    /\ chain.ret = "true"
    /\ ProviderNames[chain.via] = "Jupiter"
    /\ chain.failures = <<1, 2>>

\* C2: executeSwap returns false when every available provider failed, at
\* whatever stage; no error leaves it; it returns true only when the last call
\* made ended with the broadcast accepted.
C2_NoEscape ==
    /\ chain.ret \in {"none", "true", "false"}
    /\ chain.pc = "returned" => chain.ret \in {"true", "false"}
    /\ chain.ret = "true" => chain.last = "accepted"
    /\ (chain.pc = "returned" /\ chain.failures = chain.invoked) => chain.ret = "false"
    /\ chain.ret = "false" => chain.failures = AvailBefore(NumProviders + 1)

\* C2 witness: all four providers were available and each failed at another
\* stage; false was returned.
C2_Witness ==
    /\ chain.ret = "false"
    /\ chain.kinds = <<"transient", "terminal", "signThrows", "sendThrows">>

\* C3: a provider the chain moved past after a transient error was called
\* maxRetries times on that request, one it moved past after a terminal error
\* was called once.
C3_TransientRetried ==
    \A k \in DOMAIN chain.failures :
        /\ chain.kinds[k] = "transient" => CallsTo(chain.failures[k]) = maxRetries
        /\ chain.kinds[k] = "terminal" => CallsTo(chain.failures[k]) = 1

\* A step of the loop that makes an executeSwap call.
SwapStep == pc \in {"forward", "dwell"} /\ pc' # pc

\* A step that runs the top of the while loop.
TopStep == pc = "top" /\ pc' # "top"

\* C4: in every step dailyTxCount stays, or goes up by one in a step whose
\* executeSwap call had its broadcast accepted, or is set to 0 by the reset at
\* the top of the loop; a call that failed leaves it as it was.
C4_CounterSteps ==
    [][ /\ \/ dailyTxCount' = dailyTxCount
           \/ /\ dailyTxCount' = dailyTxCount + 1
              /\ SwapStep
              /\ evt'.ok
           \/ /\ dailyTxCount' = 0
              /\ TopStep
              /\ day # lastResetDate
        /\ SwapStep => dailyTxCount' = dailyTxCount + (IF evt'.ok THEN 1 ELSE 0)
      ]_vars

\* C4 witness: a hedge leg failed after a forward leg that was counted.
C4_Witness ==
    /\ evt # NoEvt
    /\ evt.leg = "hedge"
    /\ ~evt.ok
    /\ dailyTxCount = 1

\* C5: the clock never going back, the reset fires in exactly those iterations
\* whose date differs from lastResetDate (the first one after the start
\* among them); it sets the counter to 0 and lastResetDate to that date, which
\* is later than the one it replaces, so no date is reset twice; nothing else
\* changes lastResetDate.
C5_ResetOncePerDate ==
    [][ /\ TopStep =>
              IF day # lastResetDate
              THEN dailyTxCount' = 0 /\ lastResetDate' = day
              ELSE dailyTxCount' = dailyTxCount /\ lastResetDate' = lastResetDate
        /\ lastResetDate' # lastResetDate =>
              /\ TopStep
              /\ lastResetDate < day
              /\ lastResetDate' = day
        /\ day' >= day
      ]_vars

\* C5 witness: the second date's reset has been made and a round begun.
C5_Witness ==
    /\ day = 1
    /\ lastResetDate = 1
    /\ dailyTxCount = 0
    /\ pc = "forward"

\* C6: no executeSwap call is made while the hour is outside the window.
C6_NoSwapOutsideWindow == evt # NoEvt => isWorkTime(hour)

\* C7: dailyTxCount never exceeds the daily cap.
C7_CountWithinCap == dailyTxCount <= DailyCap

\* C8: once dailyTxCount has reached the cap, no executeSwap call is made
\* while the date is still the one of the last reset.
C8_NoSwapAfterCap ==
    [][ (dailyTxCount >= DailyCap /\ day = lastResetDate) => ~SwapStep ]_vars

\* C9: an iteration that finds the hour outside the window makes no
\* executeSwap call and sleeps PollIntervalMs; the sleep ends at the top of the
\* loop with nothing done in between; and the top of the loop is only ever
\* entered from a sleep.
C9_PollOutsideWindow ==
    [][ /\ (TopStep /\ ~isWorkTime(hour)) =>
              /\ pc' = "windowSleep"
              /\ sleepMs' = PollIntervalMs
              /\ evt' = NoEvt
              /\ UNCHANGED <<shuffled, idx>>
        /\ pc = "windowSleep" =>
              /\ pc' \in {"windowSleep", "top"}
              /\ evt' = NoEvt
              /\ dailyTxCount' = dailyTxCount
        /\ (pc' = "top" /\ pc # "top") =>
              /\ pc \in {"windowSleep", "capSleep", "roundSleep"}
              /\ sleepMs > 0
      ]_vars

\* C9 witness: asleep at 03:00 after the gate found the window closed.
C9_Witness ==
    /\ pc = "windowSleep"
    /\ hour = 3
    /\ sleepMs = PollIntervalMs

\* The hedge call just made goes with the forward call kept in fwd: the same
\* wallet, a forward leg that returned true, the assets exchanged.
HedgeOfForward ==
    /\ fwd # NoEvt
    /\ fwd.leg = "forward"
    /\ fwd.ok
    /\ evt.wallet = fwd.wallet
    /\ evt.from = fwd.to
    /\ evt.to = fwd.from
    /\ evt.to = SOL

\* While the hedge is pending, fwd is the call the loop's own wallet, target
\* and amount made.
PendingIsOwn ==
    pc = "dwell" =>
        /\ fwd.ok
        /\ fwd.wallet = shuffled[idx]
        /\ fwd.to = PROTOCOL_MINTS[target]
        /\ fwd.lamports = ForwardLamports(amount)

\* Over every amount the loop can draw, not only those of Amounts: the hedge
\* call's base units are within one of 0.995 times the forward call's.
WithinOneEverywhere ==
    \A a \in AmountMin..AmountMax :
        LET f == amountLamports(AmountNumber(a))
            h == amountLamports(MulD(AmountNumber(a), HedgeFactor))
        IN 1000 * h - 995 * f \in (0 - 1000)..1000

\* C10 as stated: the hedge call's amount is exactly 0.995 times the amount of
\* the forward call before it (same wallet, same round), with the assets
\* exchanged.
C10_HedgeExact ==
    (evt # NoEvt /\ evt.leg = "hedge") =>
        /\ HedgeOfForward
        /\ 1000 * evt.lamports = 995 * fwd.lamports

\* C10 as amended: the hedge call's amount is the double amount * 0.995 of the
\* same forward amount; in base units it is within one of 0.995 times the
\* forward call's base units; the assets are those of the forward call,
\* exchanged.
C10_HedgeWithinOne ==
    /\ PendingIsOwn
    /\ (evt # NoEvt /\ evt.leg = "hedge") =>
          /\ HedgeOfForward
          /\ 1000 * evt.lamports - 995 * fwd.lamports \in (0 - 1000)..1000
    /\ WithinOneEverywhere

\* C10 witness: 0.000102 SOL went out as 102000 base units and came back as
\* 101489, one less than 0.995 times 102000.
C10_Witness ==
    /\ evt # NoEvt
    /\ evt.leg = "hedge"
    /\ fwd.lamports = 102000
    /\ evt.lamports = 101489

\* A step of the top of the loop that passes both gates and begins a round.
RoundStart == TopStep /\ pc' \in {"forward", "roundSleep"}

\* The loop is in a round, or in the sleep that follows it.
InRound == pc \in {"forward", "dwell", "interDelay", "roundSleep"}

\* How often wallet w stands in the sequence q.
Times(w, q) == Cardinality({k \in DOMAIN q : q[k] = w})

\* C11: in every round the order is a bijection from 1..N to the wallets the
\* constructor read; the forward legs run so far are those of the first
\* places of the order, one each and in that order, whatever they returned;
\* when the round is over every wallet has had exactly one forward leg.
C11_RoundIsBijection ==
    InRound =>
        /\ DOMAIN shuffled = 1..Cardinality(DOMAIN wallets)
        /\ \A w \in DOMAIN wallets : Times(w, shuffled) = 1
        /\ done = SubSeq(shuffled, 1, Len(done))
        /\ pc = "forward" => Len(done) = idx - 1
        /\ pc \in {"dwell", "interDelay"} => Len(done) = idx
        /\ pc = "roundSleep" => \A w \in DOMAIN wallets : Times(w, done) = 1

\* C11 witness: the round took the last wallet first; the forward leg of the
\* wallet it took last has just failed, and every wallet has had its leg.
C11_Witness ==
    /\ pc = "interDelay"
    /\ evt.leg = "forward"
    /\ ~evt.ok
    /\ shuffled[1] = NumWallets
    /\ Len(done) = NumWallets

\* C12: no step of an executeSwap call, from its entry to its return, changes
\* dailyTxCount or lastResetDate: the call hands back its result and the
\* counter is left for the caller to change.
C12_SwapLeavesSession ==
    [][ chain' # chain =>
            /\ dailyTxCount' = dailyTxCount
            /\ lastResetDate' = lastResetDate ]_vars

\* The last step was an executeSwap call that returned false.
FailedLeg == evt.leg # "none" /\ ~evt.ok

\* C13: a forward or a hedge leg that fails leaves the loop in the inter-wallet
\* sleep, at the same place of the same round; that sleep is followed by the
\* next wallet's forward leg or, after the last wallet, by the inter-round
\* sleep; in every state some step of start() can be taken; and, the awaits
\* settling, a failed leg leads to the inter-round sleep with every wallet of
\* the round processed, and from there to the top of the loop.
C13_FailureNeverStops ==
    /\ [][ (SwapStep /\ ~evt'.ok) =>
               /\ pc' = "interDelay"
               /\ sleepMs' \in InterWalletMs
               /\ idx' = idx
               /\ shuffled' = shuffled ]_vars
    /\ [][ (pc = "interDelay" /\ pc' # pc) =>
               /\ shuffled' = shuffled
               /\ IF idx < Len(shuffled)
                  THEN pc' = "forward" /\ idx' = idx + 1
                  ELSE pc' = "roundSleep" /\ sleepMs' \in LoopWaitMs ]_vars
    /\ [](ENABLED LoopStep)
    /\ FailedLeg ~> (pc = "roundSleep" /\ done = shuffled)
    /\ FailedLeg ~> (pc = "top")

\* C13 witness: the first wallet's hedge leg has failed, the loop is in the
\* inter-wallet sleep and another wallet is still to come.
C13_Witness ==
    /\ pc = "interDelay"
    /\ evt.leg = "hedge"
    /\ ~evt.ok
    /\ idx < Len(shuffled)

\* No WALLET_* entry is set.
NoIdentity(e) == WalletKeys(e) = {}

\* A configuration the bot cannot work with: no wallet, no RPC_URL, or a
\* wallet entry whose key does not decode.
Unrecoverable(e) ==
    \/ NoIdentity(e)
    \/ ~e.rpcUrl
    \/ \E k \in Wallets : e.keys[k].kind = "malformed"

\* C14: the process ends (exit code 1) only on an unrecoverable configuration
\* and only before the first iteration of the loop; on such a configuration it
\* never gets to run; and with no wallet configured no iteration of the loop
\* is ever made.
C14_ExitOnlyAtStartup ==
    /\ proc = "crashed" =>
          /\ Unrecoverable(env)
          /\ pc = "top"
          /\ lastResetDate = NoDate
    /\ Unrecoverable(env) => proc # "running"
    /\ NoIdentity(env) => (pc = "top" /\ lastResetDate = NoDate)

\* C15: an executeSwap call uses the agent, the connection and the keypair of
\* the wallet it is made for, and neither the key nor the route its requests
\* and its broadcast pass over is that of another wallet of the pool.
C15_ExclusivePaths ==
    evt.leg # "none" =>
        /\ evt.ctx = wallets[evt.wallet]
        /\ \A w \in DOMAIN wallets \ {evt.wallet} :
              /\ wallets[w].keypair # evt.ctx.keypair
              /\ wallets[w].connection # evt.ctx.connection
              /\ wallets[w].route # evt.ctx.route

\* C16: in one executeSwap call no provider is called twice; every provider
\* called so far lies before the place the loop stands at, which only moves
\* on; no provider the loop moved past had its broadcast accepted; and once a
\* broadcast is accepted the call has returned true, that provider being the
\* last one called.
C16_NoProviderTwice ==
    /\ \A p \in 1..NumProviders : CallsTo(p) <= 1
    /\ chain.pc = "loop" =>
          \A k \in DOMAIN chain.invoked : chain.invoked[k] < chain.i
    /\ \A k \in DOMAIN chain.kinds : chain.kinds[k] # "accepted"
    /\ chain.last = "accepted" =>
          /\ chain.pc = "returned"
          /\ chain.ret = "true"
          /\ chain.invoked[Len(chain.invoked)] = chain.via

\* C16 witness: DFlow failed, Raydium's transaction was accepted; Jupiter and
\* OKX DEX were not called.
C16_Witness ==
    /\ chain.last = "accepted"
    /\ ProviderNames[chain.via] = "Raydium"
    /\ chain.invoked = <<1, 2>>

\* The error a fetchWithRetry call that threw has thrown: the one operation()
\* threw last.
Thrown == retry.errors[Len(retry.errors)]

\* C17: in a fetchWithRetry call the k-th delay is k times the first and each
\* is longer than the one before; operation() is called at most maxRetries
\* times; every error but the last was transient and was followed by one
\* delay; a terminal error is thrown on at once, with no delay after it, and
\* after one single call when it is the first error; when maxRetries calls all
\* failed transiently the call throws the last error; and every call ends.
C17_RetryBounded ==
    /\ [](/\ retry.calls <= maxRetries
          /\ \A k \in DOMAIN retry.delays :
                /\ retry.delays[k] = k * BackoffBaseMs
                /\ k > 1 => retry.delays[k] > retry.delays[k - 1]
          /\ \A k \in DOMAIN retry.errors :
                k < Len(retry.errors) => IsTransient(retry.errors[k])
          /\ retry.result = "threw" =>
                /\ retry.calls = Len(retry.errors)
                /\ IF IsTransient(Thrown)
                   THEN /\ retry.calls = maxRetries
                        /\ Len(retry.delays) = maxRetries
                   ELSE /\ Len(retry.delays) = retry.calls - 1
                        /\ Len(retry.errors) = 1 =>
                              retry.calls = 1 /\ retry.delays = <<>>)
    /\ (retry.pc = "loop") ~> (retry.pc = "done")

\* C17 witness: three calls failed with a timeout, a reset and a timeout again,
\* 2 s, 4 s and 6 s were waited, and the last error has been thrown.
C17_Witness ==
    /\ retry.result = "threw"
    /\ retry.calls = maxRetries
    /\ retry.delays = <<2000, 4000, 6000>>
    /\ IsTransient(Thrown)

\* A step that makes the forward call, and one that makes the hedge call.
ForwardStep == pc = "forward" /\ pc' # pc
HedgeStep == pc = "dwell" /\ pc' # pc

\* C18: a forward leg that returned true leaves the loop in the dwell, one
\* that returned false in the inter-wallet sleep; the dwell is entered in no
\* other way and is left only by the hedge call, made for the wallet whose
\* forward leg was the last to run; a hedge call is made in no other step, and
\* whatever it returns the loop goes on to the inter-wallet sleep with no
\* target and no amount kept: outside a dwell nothing is pending.
C18_HedgeFollowsForward ==
    /\ [][ /\ ForwardStep =>
                 /\ pc' = (IF evt'.ok THEN "dwell" ELSE "interDelay")
                 /\ evt'.ok => (sleepMs' \in DwellMs /\ fwd' = evt')
           /\ (pc' = "dwell" /\ pc # "dwell") =>
                 /\ ForwardStep
                 /\ evt'.ok
                 /\ done' = Append(done, evt'.wallet)
           /\ HedgeStep =>
                 /\ sleepMs \in DwellMs
                 /\ evt'.leg = "hedge"
                 /\ evt'.wallet = done[Len(done)]
                 /\ evt'.wallet = fwd.wallet
                 /\ fwd.ok
                 /\ pc' = "interDelay"
                 /\ done' = done
           /\ evt'.leg = "hedge" => HedgeStep
         ]_vars
    /\ [](pc # "dwell" => (target = 0 /\ amount = 0))
    /\ [](\A ms \in DwellMs : ms > 0)

\* C18 witness: the hedge leg of the round's last wallet has failed after a
\* forward leg that was counted; the loop is in the inter-wallet sleep and
\* keeps no amount.
C18_Witness ==
    /\ pc = "interDelay"
    /\ evt.leg = "hedge"
    /\ ~evt.ok
    /\ fwd.ok
    /\ amount = 0
    /\ idx = Len(shuffled)

\* C19: a step makes at most one executeSwap call, for the wallet at the
\* loop's place in the round, and only as the forward or the hedge step of
\* that place; when a forward call is made the wallets before that place have
\* all had theirs; the inter-wallet sleep follows a forward leg that failed or
\* a hedge leg and nothing else, and it is a real sleep; the loop's place moves
\* on by one, and only when that sleep ends.
C19_OneAtATime ==
    /\ [][ /\ evt'.leg # "none" =>
                 /\ SwapStep
                 /\ evt'.wallet = shuffled[idx]
                 /\ idx' = idx
                 /\ shuffled' = shuffled
           /\ ForwardStep =>
                 /\ evt'.leg = "forward"
                 /\ done = SubSeq(shuffled, 1, idx - 1)
           /\ (pc' = "interDelay" /\ pc # pc') =>
                 \/ ForwardStep /\ ~evt'.ok
                 \/ HedgeStep
           /\ (idx' # idx /\ idx' > 1) =>
                 /\ pc = "interDelay"
                 /\ sleepMs \in InterWalletMs
                 /\ idx' = idx + 1
                 /\ pc' = "forward"
         ]_vars
    /\ [](pc = "interDelay" => sleepMs > 0)

\* C19 witness: the second wallet of the round is in its dwell; the first
\* wallet's legs and the sleep after them are over.
C19_Witness ==
    /\ pc = "dwell"
    /\ idx = 2
    /\ evt.leg = "forward"
    /\ evt.wallet = shuffled[2]
    /\ done = SubSeq(shuffled, 1, 2)

\* C20: an iteration that finds a date other than lastResetDate sets the
\* counter to 0 and lastResetDate to that date, whatever the counter was and
\* wherever the loop slept before, and logs the count left behind; the gates
\* see the counter after the reset: the iteration never ends in the cap's
\* sleep, it begins a round exactly when the hour is inside the window and
\* sleeps the window's poll interval exactly when it is not.
C20_ResetBeforeGates ==
    [][ (TopStep /\ day # lastResetDate) =>
            /\ dailyTxCount' = 0
            /\ lastResetDate' = day
            /\ resetLog' = [date |-> day, yesterday |-> dailyTxCount]
            /\ pc' # "capSleep"
            /\ isWorkTime(hour) <=> RoundStart
            /\ ~isWorkTime(hour) <=> pc' = "windowSleep"
      ]_vars

\* C20 witness: the cap was reached on the day before; the first iteration of
\* the new day has set the counter to 0.
C20_Witness ==
    /\ resetLog.date = day
    /\ day > 0
    /\ resetLog.yesterday >= DailyCap
    /\ dailyTxCount = 0
    /\ lastResetDate = day

\* --------------------------------------------------- the counter and the date
\* C21: every broadcast that is accepted is counted while lastResetDate is the
\* date on which it occurs. With the counter going up by one for each accepted
\* broadcast and back to 0 on a new date only, this is what makes
\* dailyTxCount, at each test of the cap, the number of the broadcasts
\* accepted on the date lastResetDate: a broadcast accepted on a date the
\* counter has not been reset for is added to the count of the day before and
\* is gone with the next reset.
C21_CountedOnItsDate ==
    [][ (SwapStep /\ evt'.ok) => lastResetDate = day ]_vars

\* ------------------------------------------------------ the overshoot's bound
\* The most dailyTxCount can be once the legs of the first k wallets of a
\* round, and extra of the legs of the next one, have run: a round starts
\* below the cap and each leg adds at most one.
RoundBound(k, extra) == DailyCap - 1 + 2 * k + extra

\* C22: dailyTxCount is at most 119 + 2 x N in every state, N the number of
\* wallets. Within a round the bound follows the position: a round starts
\* with at most 119, and when the wallet at place idx is about to run, is in
\* its dwell, or is done, the counter is at most 119 plus two for each wallet
\* before it, plus one after its forward leg, plus two after its hedge.
C22_OvershootBounded ==
    LET N == Cardinality(DOMAIN wallets)
    IN /\ dailyTxCount <= RoundBound(N, 0)
       /\ pc = "forward" => dailyTxCount <= RoundBound(idx - 1, 0)
       /\ pc = "dwell" => dailyTxCount <= RoundBound(idx - 1, 1)
       /\ pc = "interDelay" => dailyTxCount <= RoundBound(idx, 0)
       /\ pc \in {"forward", "dwell", "interDelay"} => idx \in 1..N

\* C22 witness: a round that started at 119 has had both legs of every wallet
\* accepted: the counter stands at the bound.
C22_Witness ==
    /\ pc = "interDelay"
    /\ idx = Cardinality(DOMAIN wallets)
    /\ evt.leg = "hedge"
    /\ evt.ok
    /\ dailyTxCount = RoundBound(Cardinality(DOMAIN wallets), 0)

====
